---- MODULE Spec2Model ----
(***************************************************************************)
(* TaskFlow backend (FastAPI + SQLAlchemy): the task store and the five    *)
(* /tasks handlers of backend/src/app.py over the tasks table of           *)
(* backend/src/models.py.                                                  *)
(*                                                                         *)
(* JSON strings are TLA+ strings; JSON null / Python None is the value     *)
(* None below, which no request string equals.  A request body is a        *)
(* function from the keys it carries to their values, so "key absent" and  *)
(* "key sent as null" are different bodies.  Timestamps of the database    *)
(* clock (func.now()) are integers.                                        *)
(***************************************************************************)
EXTENDS Integers, Sequences, FiniteSets, TLC

VARIABLES tasks, issued, now, nreq, last, sess

vars == <<tasks, issued, now, nreq, last, sess>>

\* ------------------------------------------------------------------ bounds
MaxRequests == 3
NumSessions == 2

\* ---------------------------------------------------------------- constants
TitleMinLength == 1
TitleMaxLength == 200
DescriptionMaxLength == 1000
AssigneeMaxLength == 100
NaiveDateTimeLength == 19

None == "None"

TaskStatus == {"todo", "in_progress", "done"}
TaskPriority == {"low", "medium", "high"}
DefaultStatus == "todo"
DefaultPriority == "medium"

UpdateFields == {"title", "description", "status", "priority", "assignee", "due_date"}
TaskFields == UpdateFields \cup {"id", "created_at", "updated_at"}

EmptyBody == [k \in {} |-> None]

\* ------------------------------------------------------------ string helpers
\* The string of n copies of c, built by halving.
RECURSIVE Rep(_, _)
Rep(c, n) == IF n = 0 THEN ""
             ELSE IF n % 2 = 0 THEN LET h == Rep(c, n \div 2) IN h \o h
             ELSE c \o Rep(c, n - 1)

IsSpace(c) == c \in {" ", "\t", "\n"}

RECURSIVE LStrip(_)
LStrip(s) == IF s = "" THEN s
             ELSE IF IsSpace(Head(s)) THEN LStrip(Tail(s)) ELSE s

RECURSIVE RStrip(_)
RStrip(s) == IF s = "" THEN s
             ELSE IF IsSpace(SubSeq(s, Len(s), Len(s)))
                  THEN RStrip(SubSeq(s, 1, Len(s) - 1)) ELSE s

\* str.strip()
Strip(s) == RStrip(LStrip(s))

\* Python truthiness of an Optional[str]: None and "" are falsy.
Falsy(v) == v = None \/ v = ""

\* The title check without its strip(): `not title`.
TitleIsBlankKeepSpaces(title) == Falsy(title)

\* `not title or not title.strip()`
TitleIsBlank(title) == Falsy(title) \/ Falsy(Strip(title))

Get(body, k, default) == IF k \in DOMAIN body THEN body[k] ELSE default

\* ------------------------------------------------------- request validation
\* Optional[str] = Field(None, max_length=n): None passes, a string is measured.
OptionalStrOk(body, k, maxLen) ==
    k \in DOMAIN body => (body[k] = None \/ Len(body[k]) <= maxLen)

\* Optional[datetime]: an ISO-8601 date-time, with or without a UTC offset.
OptionalDateTimeOk(body, k) ==
    k \in DOMAIN body =>
        (body[k] = None \/ Len(body[k]) \in {NaiveDateTimeLength, NaiveDateTimeLength + 6})

\* class TaskCreate: title is required and is a str (null is rejected); status
\* and priority are enum members when present (null is rejected).
TaskCreate(body) ==
    /\ "title" \in DOMAIN body
    /\ body["title"] # None
    /\ Len(body["title"]) >= TitleMinLength
    /\ Len(body["title"]) <= TitleMaxLength
    /\ OptionalStrOk(body, "description", DescriptionMaxLength)
    /\ "status" \in DOMAIN body => body["status"] \in TaskStatus
    /\ "priority" \in DOMAIN body => body["priority"] \in TaskPriority
    /\ OptionalStrOk(body, "assignee", AssigneeMaxLength)
    /\ OptionalDateTimeOk(body, "due_date")

\* class TaskUpdate: every field Optional, so null passes for each of them.
TaskUpdate(body) ==
    /\ "title" \in DOMAIN body =>
          (body["title"] = None
             \/ (Len(body["title"]) >= TitleMinLength /\ Len(body["title"]) <= TitleMaxLength))
    /\ OptionalStrOk(body, "description", DescriptionMaxLength)
    /\ "status" \in DOMAIN body => body["status"] \in TaskStatus \cup {None}
    /\ "priority" \in DOMAIN body => body["priority"] \in TaskPriority \cup {None}
    /\ OptionalStrOk(body, "assignee", AssigneeMaxLength)
    /\ OptionalDateTimeOk(body, "due_date")

\* updates.model_dump(exclude_unset=True): the declared fields the body set.
model_dump(body) == [k \in DOMAIN body \cap UpdateFields |-> body[k]]

\* --------------------------------------------------------------- the store
\* Column(DateTime): the column keeps no UTC offset.
DateTimeColumn(v) == IF v = None THEN None ELSE SubSeq(v, 1, NaiveDateTimeLength)

ToColumn(k, v) == IF k = "due_date" THEN DateTimeColumn(v) ELSE v

\* str(uuid.uuid4()): a value no earlier call returned.
Digits == "0123456789"
UuidStr(n) == "uuid-" \o SubSeq(Digits, n + 1, n + 1)
uuid4(n) == UuidStr(n + 1)

IssuedIds == {UuidStr(n) : n \in 1..issued}

\* TaskModel(...) then INSERT: both timestamps take server_default=func.now().
TaskModel(id, data, t) ==
    [id          |-> id,
     title       |-> data["title"],
     description |-> Get(data, "description", None),
     status      |-> Get(data, "status", DefaultStatus),
     priority    |-> Get(data, "priority", DefaultPriority),
     assignee    |-> Get(data, "assignee", None),
     due_date    |-> DateTimeColumn(Get(data, "due_date", None)),
     created_at  |-> t,
     updated_at  |-> t]

\* response_model=Task: status and priority must be enum members.
Task(row) == row["status"] \in TaskStatus /\ row["priority"] \in TaskPriority

Resp(code, store, result) == [code |-> code, store |-> store, result |-> result]

\* Serialisation of the returned rows through the response model.
Respond(code, store, rows) ==
    IF \A r \in rows : Task(r) THEN Resp(code, store, rows) ELSE Resp(500, store, {})

Rows(store) == {store[i] : i \in DOMAIN store}

\* ---------------------------------------------------------------- handlers
\* GET /tasks: `if status:` / `if priority:` / `if assignee:` guard each filter.
get_tasks(store, q) ==
    IF ~(/\ "status" \in DOMAIN q => q["status"] \in TaskStatus
         /\ "priority" \in DOMAIN q => q["priority"] \in TaskPriority)
    THEN Resp(422, store, {})
    ELSE Respond(200, store,
                 {r \in Rows(store) : \A k \in DOMAIN q : ~Falsy(q[k]) => r[k] = q[k]})

\* GET /tasks/{task_id}
get_task(store, task_id) ==
    IF task_id \notin DOMAIN store
    THEN Resp(404, store, {})
    ELSE Respond(200, store, {store[task_id]})

\* create_task adding and committing the row before it validates the title.
create_task_persist_first(store, body, n, t) ==
    IF ~("title" \in DOMAIN body)
    THEN Resp(422, store, {})
    ELSE LET row == TaskModel(uuid4(n), body, t)
             added == (row["id"] :> row) @@ store
         IN  IF ~TaskCreate(body) \/ TitleIsBlank(body["title"])
             THEN Resp(422, added, {})
             ELSE Respond(201, added, {row})

\* POST /tasks: the body is parsed as TaskCreate before the handler runs.
create_task(store, body, n, t) ==
    IF ~TaskCreate(body)
    THEN Resp(422, store, {})
    ELSE IF TitleIsBlank(body["title"])
    THEN Resp(422, store, {})
    ELSE LET row == TaskModel(uuid4(n), body, t)
             added == (row["id"] :> row) @@ store
         IN  Respond(201, added, {row})

\* The attributes whose new value differs from the one the session loaded:
\* only these reach the UPDATE statement.
Changed(obj, update_data) == {k \in DOMAIN update_data : update_data[k] # obj[k]}

\* commit_update writing the whole row: a field the body omits is reset.
commit_update_replace(store, obj, update_data, t) ==
    LET id == obj["id"]
        changed == Changed(obj, update_data)
    IN  IF id \notin DOMAIN store
        THEN Resp(500, store, {})
        ELSE IF changed = {}
        THEN Respond(200, store, {store[id]})
        ELSE IF "title" \in changed /\ update_data["title"] = None
        THEN Resp(500, store, {})
        ELSE LET row == [k \in TaskFields |->
                            IF k \in changed THEN ToColumn(k, update_data[k])
                            ELSE IF k = "updated_at" THEN t
                            ELSE IF k \in {"description", "assignee", "due_date"} THEN None
                            ELSE store[id][k]]
                 written == [store EXCEPT ![id] = row]
             IN  Respond(200, written, {row})

\* setattr loop, db.commit(), db.refresh(task) of update_task, for the object
\* `obj` the session loaded.  An UPDATE is emitted only for changed attributes
\* and sets updated_at (onupdate=func.now()); it fails when the row is gone
\* (and so does the refresh) or when title, a NOT NULL column, is set to NULL.
commit_update(store, obj, update_data, t) ==
    LET id == obj["id"]
        changed == Changed(obj, update_data)
    IN  IF id \notin DOMAIN store
        THEN Resp(500, store, {})
        ELSE IF changed = {}
        THEN Respond(200, store, {store[id]})
        ELSE IF "title" \in changed /\ update_data["title"] = None
        THEN Resp(500, store, {})
        ELSE LET row == [k \in TaskFields |->
                            IF k \in changed THEN ToColumn(k, update_data[k])
                            ELSE IF k = "updated_at" THEN t
                            ELSE store[id][k]]
                 written == [store EXCEPT ![id] = row]
             IN  Respond(200, written, {row})

\* The handler body of update_task after the lookup found `obj`.
update_found(store, obj, updates, t) ==
    LET update_data == model_dump(updates)
    IN  IF "title" \in DOMAIN update_data /\ TitleIsBlank(update_data["title"])
        THEN Resp(422, store, {})
        ELSE commit_update(store, obj, update_data, t)

\* PUT /tasks/{task_id}: the body is parsed as TaskUpdate before the handler runs.
update_task(store, task_id, updates, t) ==
    IF ~TaskUpdate(updates)
    THEN Resp(422, store, {})
    ELSE IF task_id \notin DOMAIN store
    THEN Resp(404, store, {})
    ELSE update_found(store, store[task_id], updates, t)

\* db.delete(task); db.commit(): a DELETE that matches no row is not an error.
commit_delete(store, obj) ==
    Resp(204, [i \in DOMAIN store \ {obj["id"]} |-> store[i]], {})

\* DELETE /tasks/{task_id}
delete_task(store, task_id) ==
    IF task_id \notin DOMAIN store
    THEN Resp(404, store, {})
    ELSE commit_delete(store, store[task_id])

\* ------------------------------------------------------------------ inputs
LongTitle == Rep("x", TitleMaxLength)
TooLongTitle == Rep("x", TitleMaxLength + 1)
NaiveDate == "2025-01-31T10:00:00"
AwareDate == "2025-01-31T10:00:00+02:00"
UnknownId == "no-such-id"

Values(k) ==
    CASE k = "title"       -> {"", " ", "a", LongTitle, TooLongTitle, None}
      [] k = "description" -> {"d", None}
      [] k = "status"      -> {"done", "bogus", None}
      [] k = "priority"    -> {"high", None}
      [] k = "assignee"    -> {"", "bob"}
      [] k = "due_date"    -> {NaiveDate, AwareDate}

OneKeyBodies == UNION {{(k :> v) : v \in Values(k)} : k \in UpdateFields}

\* Keys that are no field of TaskCreate / TaskUpdate.
ForgedBody == ("id" :> "forged") @@ ("created_at" :> "1999-01-01T00:00:00")

\* POST bodies: no title, a title alone, or a title with a status, an assignee
\* or a due date.
CreateBodies ==
    {EmptyBody} \cup
    {b \in OneKeyBodies : DOMAIN b = {"title"}} \cup
    {("title" :> "a") @@ b :
        b \in {c \in OneKeyBodies : DOMAIN c \in {{"status"}, {"assignee"}, {"due_date"}}}}

\* PUT bodies: empty, one field, two fields, or keys that are no field.
UpdateBodies ==
    {EmptyBody, ForgedBody} \cup OneKeyBodies \cup
    {("status" :> "done") @@ ("assignee" :> "bob")}

Queries ==
    {EmptyBody,
     ("status" :> "done"),
     ("priority" :> "high"),
     ("assignee" :> ""),
     ("status" :> "done") @@ ("assignee" :> "bob")}

PathIds == IssuedIds \cup {UnknownId}

\* Seconds the database clock may have advanced since the handlers last read it.
Elapsed == {0, 1}

\* ----------------------------------------------------------------- actions
Idle == [p \in 1..NumSessions |-> [pc |-> "idle", op |-> "", id |-> "", body |-> EmptyBody,
                                   obj |-> EmptyBody, code |-> 0]]

Init ==
    /\ tasks = [i \in {} |-> EmptyBody]
    /\ issued = 0
    /\ now = 0
    /\ nreq = 0
    /\ last = [op |-> "", id |-> "", body |-> EmptyBody, code |-> 0, result |-> {}]
    /\ sess = Idle

\* The response and the store after a request; the clock is read (func.now())
\* only by a statement that writes.
Answer(op, id, body, r, t) ==
    /\ tasks' = r.store
    /\ last' = [op |-> op, id |-> id, body |-> body, code |-> r.code, result |-> r.result]
    /\ nreq' = nreq + 1
    /\ now' = IF r.store # tasks THEN t ELSE now

PostTasks ==
    /\ nreq < MaxRequests
    /\ \E body \in CreateBodies, dt \in Elapsed :
         LET r == create_task(tasks, body, issued, now + dt)
         IN  /\ Answer("POST", "", body, r, now + dt)
             /\ issued' = IF r.code = 422 THEN issued ELSE issued + 1
    /\ UNCHANGED sess

PutTask ==
    /\ nreq < MaxRequests
    /\ \E id \in PathIds, body \in UpdateBodies, dt \in Elapsed :
         Answer("PUT", id, body, update_task(tasks, id, body, now + dt), now + dt)
    /\ UNCHANGED <<issued, sess>>

DeleteTask ==
    /\ nreq < MaxRequests
    /\ \E id \in PathIds :
         Answer("DELETE", id, EmptyBody, delete_task(tasks, id), now)
    /\ UNCHANGED <<issued, sess>>

GetTask ==
    /\ nreq < MaxRequests
    /\ \E id \in PathIds :
         Answer("GET", id, EmptyBody, get_task(tasks, id), now)
    /\ UNCHANGED <<issued, sess>>

GetTasks ==
    /\ nreq < MaxRequests
    /\ \E q \in Queries :
         Answer("LIST", "", q, get_tasks(tasks, q), now)
    /\ UNCHANGED <<issued, sess>>

Next == PostTasks \/ PutTask \/ DeleteTask \/ GetTask \/ GetTasks

Spec == Init /\ [][Next]_vars

\* --------------------------------------------- concurrent PUT and DELETE
\* Each request runs in a session of its own (get_db): it loads the task, and
\* commits later; other sessions may commit in between.
Sessions == 1..NumSessions

ConcurrentBodies == {EmptyBody, ("status" :> "done"), ("priority" :> "high"), ("title" :> "b")}

SeedBody == ("title" :> "a")

\* A first task, created by a request that runs alone.
Seed ==
    /\ issued = 0
    /\ LET r == create_task(tasks, SeedBody, issued, now)
       IN  /\ tasks' = r.store
           /\ last' = [op |-> "POST", id |-> "", body |-> SeedBody, code |-> r.code,
                       result |-> r.result]
    /\ issued' = issued + 1
    /\ UNCHANGED <<now, nreq, sess>>

\* The request arrives: the body of a PUT is parsed as TaskUpdate.
Begin(p) ==
    /\ sess[p].pc = "idle"
    /\ issued > 0
    /\ nreq < MaxRequests
    /\ \E op \in {"PUT", "DELETE"}, id \in IssuedIds :
         \E body \in (IF op = "PUT" THEN ConcurrentBodies ELSE {EmptyBody}) :
            sess' = [sess EXCEPT ![p] =
                        [pc |-> IF op = "PUT" /\ ~TaskUpdate(body) THEN "done" ELSE "lookup",
                         op |-> op, id |-> id, body |-> body, obj |-> EmptyBody,
                         code |-> IF op = "PUT" /\ ~TaskUpdate(body) THEN 422 ELSE 0]]
    /\ nreq' = nreq + 1
    /\ UNCHANGED <<tasks, issued, now, last>>

\* db.query(TaskModel).filter(TaskModel.id == task_id).first(), then the 404.
Lookup(p) ==
    /\ sess[p].pc = "lookup"
    /\ sess' = [sess EXCEPT ![p] =
                  IF sess[p].id \in DOMAIN tasks
                  THEN [@ EXCEPT !.pc = "commit", !.obj = tasks[sess[p].id]]
                  ELSE [@ EXCEPT !.pc = "done", !.code = 404]]
    /\ UNCHANGED <<tasks, issued, now, nreq, last>>

\* The rest of the handler, up to the response.
Commit(p) ==
    /\ sess[p].pc = "commit"
    /\ \E dt \in Elapsed :
         LET r == IF sess[p].op = "PUT"
                  THEN update_found(tasks, sess[p].obj, sess[p].body, now + dt)
                  ELSE commit_delete(tasks, sess[p].obj)
         IN  /\ tasks' = r.store
             /\ now' = IF r.store # tasks THEN now + dt ELSE now
             /\ sess' = [sess EXCEPT ![p] = [@ EXCEPT !.pc = "done", !.code = r.code]]
             /\ last' = [op |-> sess[p].op, id |-> sess[p].id, body |-> sess[p].body,
                         code |-> r.code, result |-> r.result]
    /\ UNCHANGED <<issued, nreq>>

NextConcurrent == Seed \/ \E p \in Sessions : Begin(p) \/ Lookup(p) \/ Commit(p)

SpecConcurrent == Init /\ [][NextConcurrent]_vars

\* ------------------------------------------------------------------ claims
Stored(id) == tasks[id]

\* C1: a PUT answered 200 changes, in the store, only fields of the addressed
\* task that the body carries, and updated_at; every omitted mutable field, id
\* and created_at keep their values, and no other task changes.
C1_UpdateChangesOnlySuppliedFields ==
    [][(last'.op = "PUT" /\ last'.code = 200 /\ nreq' # nreq) =>
          /\ DOMAIN tasks' = DOMAIN tasks
          /\ last'.id \in DOMAIN tasks
          /\ \A i \in DOMAIN tasks \ {last'.id} : tasks'[i] = tasks[i]
          /\ \A f \in {"id", "created_at"} \cup (UpdateFields \ DOMAIN last'.body) :
                tasks'[last'.id][f] = tasks[last'.id][f]]_vars

C1_Witness ==
    /\ last.op = "PUT" /\ last.code = 200
    /\ DOMAIN last.body = {"status"}
    /\ Cardinality(DOMAIN tasks) = 2
    /\ Stored(last.id)["status"] = "done"
    /\ Stored(last.id)["assignee"] = "bob"

\* C2: a PUT or DELETE addressed to an id that is not in the store is answered
\* 404, whatever the body.
C2_MissingIdAlways404 ==
    [][(last'.op \in {"PUT", "DELETE"} /\ nreq' # nreq /\ last'.id \notin DOMAIN tasks) =>
          last'.code = 404]_vars

\* C3: a request answered 404 or 422 leaves the store as it was.
C3_RejectedRequestLeavesStore ==
    [][(last'.code \in {404, 422} /\ nreq' # nreq) => tasks' = tasks]_vars

C3_Witness ==
    /\ last.op = "PUT" /\ last.code = 422
    /\ last.id \in DOMAIN tasks
    /\ last.body = ("title" :> " ")

\* C4: a PUT answered 200 leaves the task with an updated_at strictly greater
\* than before.
C4_UpdatedAtStrictlyIncreases ==
    [][(last'.op = "PUT" /\ last'.code = 200 /\ nreq' # nreq) =>
          tasks'[last'.id]["updated_at"] > tasks[last'.id]["updated_at"]]_vars

\* C5: right after a POST answered 201, GET of the new id returns the values
\* the body supplied, the defaults for an omitted status and priority, a
\* non-empty id, and created_at equal to updated_at.
C5_GetAfterCreateReturnsSupplied ==
    (last.op = "POST" /\ last.code = 201) =>
        \A row \in last.result :
            LET r == get_task(tasks, row["id"])
            IN  /\ r.code = 200
                /\ \A g \in r.result :
                      /\ \A k \in DOMAIN last.body \cap UpdateFields : g[k] = last.body[k]
                      /\ "status" \notin DOMAIN last.body => g["status"] = "todo"
                      /\ "priority" \notin DOMAIN last.body => g["priority"] = "medium"
                      /\ g["id"] # ""
                      /\ g["created_at"] = g["updated_at"]

\* C6: GET /tasks returns exactly the stored tasks that equal every filter the
\* query supplies.
C6_ListReturnsExactlyMatching ==
    (last.op = "LIST" /\ last.code = 200) =>
        last.result = {r \in Rows(tasks) : \A k \in DOMAIN last.body : r[k] = last.body[k]}

\* C7: once an id has left the store, every GET, PUT or DELETE of it is
\* answered 404, and a POST never assigns an id that was issued before.
C7_DeletedIdStays404 ==
    [][/\ (last'.op \in {"GET", "PUT", "DELETE"} /\ nreq' # nreq
             /\ last'.id \in IssuedIds \ DOMAIN tasks) => last'.code = 404
       /\ (last'.op = "POST" /\ last'.code = 201 /\ nreq' # nreq) =>
             \A row \in last'.result : row["id"] \notin IssuedIds]_vars

C9_StoredEnumsInDomain ==
    \A i \in DOMAIN tasks :
        Stored(i)["status"] \in TaskStatus /\ Stored(i)["priority"] \in TaskPriority

\* C10: with the lookups and commits of concurrent PUT and DELETE requests
\* interleaved, every update ends in 200 or 404 and every delete in 204 or 404.
C10_ConcurrentOutcomesSerial ==
    \A p \in Sessions :
        sess[p].pc = "done" =>
            /\ sess[p].op = "PUT" => sess[p].code \in {200, 404}
            /\ sess[p].op = "DELETE" => sess[p].code \in {204, 404}

====
